---------------------------- MODULE Spec2Model ----------------------------
(***************************************************************************)
(* Model of anki-cards-generator: the card pipeline                        *)
(* (AnkiCardGenerator.generate), the Pexels search retry loop              *)
(* (PexelsImageDownloader._search_image), the two downloaders and the      *)
(* deterministic hint generator (generate_suggestion_deterministic).       *)
(*                                                                         *)
(* Text is a sequence of tokens (one-character strings for words, longer   *)
(* tokens for fixed pieces of markup), so concatenation is \o, the empty   *)
(* string is << >> and lower()/strip() act on the characters.              *)
(* A Python value that may be None is a record [none, s].                  *)
(***************************************************************************)
EXTENDS Integers, Sequences, FiniteSets, TLC

VARIABLES
    \* ---- generate_suggestion_deterministic, applied on its own
    hintPc,         \* "idle" | "call" | "returned" | "raised"
    hintWord,       \* the word argument
    hintReveal,     \* the reveal_count argument: [none, n]
    hintResult,     \* the returned string
    \* ---- PexelsImageDownloader._search_image
    searchPc,       \* "idle" | "loop" | "returned"
    max_retries,    \* parameter
    initial_delay,  \* parameter
    attempt,        \* the loop variable of `for attempt in range(max_retries + 1)`
    image_url,      \* the value returned: None or Str(url)
    responses,      \* history: the answer each search request got, in order
    sleeps,         \* history: the argument of each time.sleep, in order
    \* ---- the environment of one run of AnkiCardGenerator.generate
    inputRows,      \* the input table: what csv.DictReader yields, in order
    api_key,        \* PexelsImageDownloader.api_key: None or Str(key)
    soundsDir,      \* the file names in SoundDownloader.output_dir
    imagesDir,      \* the file names in PexelsImageDownloader.output_dir
    outputFile,     \* the output table: [exists, lines]
    skippedLog,     \* skipped_words.txt: [exists, lines]
    \* ---- AnkiCardGenerator.generate and _process_word
    pc,             \* where generate() is
    rowNo,          \* how many rows read_words has consumed
    input_word,     \* the InputWord being processed
    word_info,      \* the WordInfo of the row
    cards,          \* generate's cards list
    skipped,        \* generate's skipped list
    translator,     \* Translator: "uninit" | "ready" | "unavailable"
    vietnamese,     \* _process_word's locals
    sound_file,
    image_file,
    \* ---- history
    entries,        \* one record per row handed to the dictionary lookup
    lastCall        \* the latest collaborator call: [row, kind]

hintVars == <<hintPc, hintWord, hintReveal, hintResult>>

searchVars ==
    <<searchPc, max_retries, initial_delay, attempt, image_url, responses, sleeps>>

envVars ==
    <<inputRows, api_key, soundsDir, imagesDir, outputFile, skippedLog>>

runVars ==
    <<pc, rowNo, input_word, word_info, cards, skipped, translator,
      vietnamese, sound_file, image_file, entries, lastCall>>

pipelineVars == <<envVars, runVars>>

vars == <<hintVars, searchVars, pipelineVars>>

----------------------------------------------------------------------------
\* Bounds of the model.

\* longest word handed to the hint generator
MaxWordLen == 8

\* largest max_retries and initial_delay handed to _search_image on its own
MaxRetriesBound == 4

MaxInitialDelay == 3

----------------------------------------------------------------------------
\* Python values.

None == [none |-> TRUE, s |-> << >>]

Str(s) == [none |-> FALSE, s |-> s]

\* Python truthiness of an Optional[str]: None and "" are falsy
Truthy(v) == ~v.none /\ v.s # << >>

NoneInt == [none |-> TRUE, n |-> 0]

IntV(n) == [none |-> FALSE, n |-> n]

Min(a, b) == IF a < b THEN a ELSE b

----------------------------------------------------------------------------
\* str.lower() and str.strip()

LowerChar(c) ==
    CASE c = "A" -> "a"
      [] c = "B" -> "b"
      [] c = "C" -> "c"
      [] c = ".OGG" -> ".ogg"
      [] c = ".JPEG" -> ".jpeg"
      [] OTHER -> c

Lower(w) == [i \in 1..Len(w) |-> LowerChar(w[i])]

IsSpace(c) == c = " "

RECURSIVE LStrip(_)
LStrip(w) == IF w # << >> /\ IsSpace(Head(w)) THEN LStrip(Tail(w)) ELSE w

RECURSIVE RStrip(_)
RStrip(w) ==
    IF w # << >> /\ IsSpace(w[Len(w)]) THEN RStrip(SubSeq(w, 1, Len(w) - 1)) ELSE w

Strip(w) == RStrip(LStrip(w))

----------------------------------------------------------------------------
\* suggestion.py: generate_suggestion_deterministic

\* " ".join(result)
JoinSpace(chars) ==
    [k \in 1..(IF chars = << >> THEN 0 ELSE 2 * Len(chars) - 1) |->
        IF k % 2 = 1 THEN chars[(k + 1) \div 2] ELSE " "]

\* the default reveal_count for a word of the given length
DefaultRevealCount(length) ==
    IF length <= 4 THEN 2
    ELSE IF length <= 7 THEN 2
    ELSE 3

\* the evenly spaced indices with no correction for the last character
RevealIndicesRaw(length, rc) ==
    {(length * (i + 1)) \div (rc + 1) : i \in 0..(rc - 1)}

\* The reveal set (0-based indices) for a clamped reveal count rc # -1.
\* The code computes int(step * (i + 1)) with the float step = length/(rc+1);
\* for every length below 30 that equals the exact floor(length*(i+1)/(rc+1)).
RevealIndices(length, rc) ==
    LET raw == {(length * (i + 1)) \div (rc + 1) : i \in 0..(rc - 1)}
    IN  IF (length - 1) \in raw
        THEN (raw \ {length - 1}) \cup {length - 2}
        ELSE raw

\* the word trimmed and not lowercased
NormalizeKeepCase(word) == Strip(word)

\* word = word.lower().strip()
Normalize(word) == Strip(Lower(word))

\* The call's outcome: [raised, value]. raised is the ZeroDivisionError of
\* step = length / (reveal_count + 1).
generate_suggestion_deterministic(word, reveal_count) ==
    IF word = << >> THEN [raised |-> FALSE, value |-> << >>]
    ELSE
    LET w == Normalize(word)
        length == Len(w)
    IN  IF length <= 2 THEN [raised |-> FALSE, value |-> w]
        ELSE
        LET rc0 == IF reveal_count.none THEN DefaultRevealCount(length)
                   ELSE reveal_count.n
            rc == Min(rc0, length)
        IN  IF rc + 1 = 0 THEN [raised |-> TRUE, value |-> << >>]
            ELSE
            LET reveal_indices == RevealIndices(length, rc)
                result == [i \in 1..length |->
                              IF (i - 1) \in reveal_indices THEN w[i] ELSE "_"]
            IN  [raised |-> FALSE, value |-> JoinSpace(result)]

\* no call of the hint generator on its own is in progress
HintIdle ==
    /\ hintPc = "idle"
    /\ hintWord = << >>
    /\ hintReveal = NoneInt
    /\ hintResult = << >>

----------------------------------------------------------------------------
\* image_downloader.py: PexelsImageDownloader._search_image

DefaultMaxRetries == 3

DefaultInitialDelay == 2

\* photos[0]["src"]["medium"] of the answers that carry a photo
ImageUrls ==
    { <<"https://images.pexels.com/1", ".png">>,
      <<"https://images.pexels.com/2", ".JPEG", "?", "w=350">> }

RECURSIVE Pow2(_)
Pow2(n) == IF n <= 0 THEN 1 ELSE 2 * Pow2(n - 1)

\* a linear backoff in place of the exponential one
BackoffDelayLinear(delay0, att) == delay0 * (att + 1)

\* delay = initial_delay * (2 ** attempt)
BackoffDelay(delay0, att) == delay0 * Pow2(att)

\* an off-by-one retry test
RetriesRemainInclusive(att, maxr) == att <= maxr

\* attempt < max_retries: a rate-limited attempt is retried
RetriesRemain(att, maxr) == att < maxr

SearchIdle ==
    /\ searchPc = "idle"
    /\ max_retries = 0
    /\ initial_delay = 0
    /\ attempt = 0
    /\ image_url = None
    /\ responses = << >>
    /\ sleeps = << >>

\* entering _search_image(keyword, maxr, delay0)
SearchEnter(maxr, delay0) ==
    /\ searchPc' = "loop"
    /\ max_retries' = maxr
    /\ initial_delay' = delay0
    /\ attempt' = 0
    /\ image_url' = None
    /\ responses' = << >>
    /\ sleeps' = << >>

InLoop == searchPc = "loop" /\ attempt <= max_retries

\* what one search request was answered with
Response(kind, url) == [kind |-> kind, url |-> url]

SearchReturn(value, response) ==
    /\ searchPc' = "returned"
    /\ image_url' = value
    /\ responses' = Append(responses, Response(response, value.s))
    /\ UNCHANGED <<max_retries, initial_delay, attempt, sleeps>>

\* 200 with a non-empty photos list: return photos[0]["src"]["medium"]
SearchFound ==
    /\ InLoop
    /\ \E url \in ImageUrls : SearchReturn(Str(url), "photos")

\* 200 with no photos: return None
SearchNoPhotos ==
    /\ InLoop
    /\ SearchReturn(None, "empty")

\* HTTPError 429 with retries left: sleep, continue
SearchRateLimitedRetry ==
    /\ InLoop
    /\ RetriesRemain(attempt, max_retries)
    /\ sleeps' = Append(sleeps, BackoffDelay(initial_delay, attempt))
    /\ responses' = Append(responses, Response("429", << >>))
    /\ attempt' = attempt + 1
    /\ UNCHANGED <<searchPc, max_retries, initial_delay, image_url>>

\* HTTPError 429 on the last attempt: return None
SearchRateLimitExceeded ==
    /\ InLoop
    /\ ~RetriesRemain(attempt, max_retries)
    /\ SearchReturn(None, "429")

\* every HTTPError taken for a rate limit
SearchHttpErrorRetried ==
    /\ InLoop
    /\ IF attempt < max_retries
       THEN /\ sleeps' = Append(sleeps, BackoffDelay(initial_delay, attempt))
            /\ responses' = Append(responses, Response("http_error", << >>))
            /\ attempt' = attempt + 1
            /\ UNCHANGED <<searchPc, max_retries, initial_delay, image_url>>
       ELSE SearchReturn(None, "http_error")

\* HTTPError with another status: return None
SearchHttpError ==
    /\ InLoop
    /\ SearchReturn(None, "http_error")

\* any other RequestException: return None
SearchRequestError ==
    /\ InLoop
    /\ SearchReturn(None, "request_error")

\* range(max_retries + 1) is used up (empty when max_retries < 0): return None
SearchLoopEnd ==
    /\ searchPc = "loop"
    /\ attempt > max_retries
    /\ searchPc' = "returned"
    /\ image_url' = None
    /\ UNCHANGED <<max_retries, initial_delay, attempt, responses, sleeps>>

----------------------------------------------------------------------------
\* csv_handler.py: the input table, AnkiCard and the output table

\* most rows the input table holds
MaxRows == 2

InputRow(keyword, viet) == [Keyword |-> keyword, Vietnamese |-> viet]

\* The rows a table is made of: a blank keyword; a row shorter than the
\* header, which has no Vietnamese cell (DictReader fills the missing key
\* with None, its restval); a keyword with a blank, and with a given,
\* translation; a second keyword.
InputRowSet ==
    { InputRow(<<" ">>, Str(<<"x">>)),
      InputRow(<<"c", "a", "t">>, None),
      InputRow(<<"c", "a", "t">>, Str(<<" ">>)),
      InputRow(<<"c", "a", "t", " ">>, Str(<<"m", "e", "o", " ">>)),
      InputRow(<<"B", "e", " ">>, Str(<< >>)) }

InputTables == UNION {[1..n -> InputRowSet] : n \in 0..MaxRows}

\* One iteration of read_words on a row: None.strip() raises AttributeError,
\* a row with a blank keyword yields nothing, any other row yields an InputWord.
ReadWord(row) ==
    LET keyword == Strip(row.Keyword)
    IN  IF row.Vietnamese.none
        THEN [raised |-> TRUE, yields |-> FALSE, keyword |-> keyword, vietnamese |-> << >>]
        ELSE [raised |-> FALSE,
              yields |-> keyword # << >>,
              keyword |-> keyword,
              vietnamese |-> Strip(row.Vietnamese.s)]

NoInputWord == [keyword |-> << >>, vietnamese |-> << >>]

OUTPUT_FIELDS ==
    <<"No", "Image", "Vietnamese", "Suggestion", "Keyword", "Transcription",
      "Explanation", "Sound", "Example">>

HeaderRow == [i \in 1..Len(OUTPUT_FIELDS) |-> Str(<<OUTPUT_FIELDS[i]>>)]

\* AnkiCard.to_dict in OUTPUT_FIELDS order
CardRow(card) ==
    <<card.no, card.image, card.vietnamese, card.suggestion, card.keyword,
      card.transcription, card.explanation, card.sound, card.example>>

\* CSVWriter.write_cards: truncate, header, one row per card
write_cards(cardList) ==
    [exists |-> TRUE,
     lines |-> <<HeaderRow>> \o [i \in 1..Len(cardList) |-> CardRow(cardList[i])]]

NoFile == [exists |-> FALSE, lines |-> << >>]

\* a row added with no look at whether the file is there
append_card_headerless(file, card) ==
    [exists |-> TRUE, lines |-> Append(file.lines, CardRow(card))]

\* CSVWriter.append_card: open with "a", the header only if the file was not
\* there, then one row
append_card(file, card) ==
    IF file.exists
    THEN [exists |-> TRUE, lines |-> Append(file.lines, CardRow(card))]
    ELSE [exists |-> TRUE, lines |-> <<HeaderRow, CardRow(card)>>]

----------------------------------------------------------------------------
\* dictionary_api.py

WordInfo(url, transcription, definition, examples) ==
    [none |-> FALSE, pronunciation_url |-> url, transcription |-> transcription,
     definition |-> definition, examples |-> examples]

\* get_word_info returning None (the request failed)
NoWordInfo ==
    [none |-> TRUE, pronunciation_url |-> None, transcription |-> None,
     definition |-> None, examples |-> << >>]

SoundUrl == <<"https://dictionary.cambridge.org/media/cat", ".OGG">>

Definition == <<"a small animal">>

\* what get_word_info can answer
WordInfos ==
    { NoWordInfo,
      WordInfo(Str(SoundUrl), Str(<<"/kaet/">>), Str(<< >>), << >>),
      WordInfo(None, None, Str(Definition), << >>),
      WordInfo(Str(SoundUrl), Str(<<"/kaet/">>), Str(Definition), << <<"The cat sat.">> >>) }

\* `not word_info or not word_info.definition`
NotFound(wi) == wi.none \/ ~Truthy(wi.definition)

format_explanation(word, definition) ==
    IF ~Truthy(definition)
    THEN <<"{{c1::">> \o word \o <<"}}">>
    ELSE <<"{{c1::">> \o word \o <<"}}">> \o <<" - ">> \o definition.s

RECURSIVE JoinBr(_)
JoinBr(items) ==
    IF items = << >> THEN << >>
    ELSE IF Len(items) = 1 THEN <<"- ">> \o Head(items)
    ELSE <<"- ">> \o Head(items) \o <<"<br>">> \o JoinBr(Tail(items))

format_examples(examples) ==
    IF examples = << >> THEN << >>
    ELSE JoinBr(SubSeq(examples, 1, Min(3, Len(examples))))

----------------------------------------------------------------------------
\* translator.py

\* _init_translator: the import is tried once
InitTranslator(state, outcome) ==
    IF state = "uninit"
    THEN (IF outcome = "import_error" THEN "unavailable" ELSE "ready")
    ELSE state

\* How a call can end: the googletrans import fails (only the first call
\* tries it), the translation arrives, or translate() raises.
TranslateOutcomes == {"import_error", "ok", "error"}

Translation == <<"con meo">>

\* translate_to_vietnamese: [result, state]
translate_to_vietnamese(word, state, outcome) ==
    IF word = << >> THEN [result |-> None, state |-> state]
    ELSE LET st == InitTranslator(state, outcome)
         IN  IF st # "ready" THEN [result |-> None, state |-> st]
             ELSE IF outcome = "ok" THEN [result |-> Str(Translation), state |-> st]
             ELSE [result |-> None, state |-> st]

----------------------------------------------------------------------------
\* sound_downloader.py and image_downloader.py: download

Suffix == <<"_auto_tool">>

Contains(url, token) == \E i \in 1..Len(url) : url[i] = token

\* SoundDownloader._get_extension
SoundGetExtension(url) ==
    LET u == Lower(url)
    IN  IF Contains(u, ".mp3") THEN <<".mp3">>
        ELSE IF Contains(u, ".wav") THEN <<".wav">>
        ELSE IF Contains(u, ".ogg") THEN <<".ogg">>
        ELSE <<".mp3">>

\* url.split("?")[0]
RECURSIVE BeforeQuery(_)
BeforeQuery(url) ==
    IF url = << >> \/ Head(url) = "?" THEN << >>
    ELSE <<Head(url)>> \o BeforeQuery(Tail(url))

EndsWith(url, token) == url # << >> /\ url[Len(url)] = token

\* PexelsImageDownloader._get_extension
ImageGetExtension(url) ==
    LET u == BeforeQuery(Lower(url))
    IN  IF EndsWith(u, ".jpg") \/ EndsWith(u, ".jpeg") THEN <<".jpg">>
        ELSE IF EndsWith(u, ".png") THEN <<".png">>
        ELSE IF EndsWith(u, ".webp") THEN <<".webp">>
        ELSE <<".jpg">>

\* How the GET of a file can end: written whole; refused (raise_for_status)
\* or unreachable, before the file is opened; broken off while streaming,
\* after open(filepath, "wb") created the file.
FetchOutcomes == {"ok", "http_error", "request_error", "stream_error"}

\* filepath.exists() answering False whatever the directory holds
FileExistsNever(dir, name) == FALSE

\* filepath.exists()
FileExists(dir, name) == name \in dir

\* The body shared by both downloaders once the name is known:
\* [target, fetched, result, dir], dir being the directory afterwards
DownloadTo(dir, full_filename, outcome) ==
    IF FileExists(dir, full_filename)
    THEN [target |-> full_filename, fetched |-> FALSE,
          result |-> Str(full_filename), dir |-> dir]
    ELSE [target |-> full_filename, fetched |-> TRUE,
          result |-> IF outcome = "ok" THEN Str(full_filename) ELSE None,
          dir |-> IF outcome \in {"ok", "stream_error"}
                  THEN dir \cup {full_filename} ELSE dir]

\* SoundDownloader.download(url, filename)
SoundDownload(dir, url, filename, outcome) ==
    IF ~Truthy(url)
    THEN [target |-> << >>, fetched |-> FALSE, result |-> None, dir |-> dir]
    ELSE DownloadTo(dir, filename \o Suffix \o SoundGetExtension(url.s), outcome)

\* PexelsImageDownloader._download_image(url, filename)
ImageDownload(dir, url, filename, outcome) ==
    DownloadTo(dir, filename \o Suffix \o ImageGetExtension(url), outcome)

----------------------------------------------------------------------------
\* main.py: AnkiCardGenerator

\* `x or ""` with the fallback left out
OrEmptyMissing(v) == v

\* `x or ""`
OrEmpty(v) == IF Truthy(v) THEN v ELSE Str(<< >>)

\* the translator asked for every entry
NeedsTranslationAlways(provided) == TRUE

\* `if not vietnamese:`
NeedsTranslation(provided) == provided = << >>

\* the new card put first
AppendCardFirst(cardList, card) == <<card>> \o cardList

\* cards.append(card)
AppendCard(cardList, card) == Append(cardList, card)

ImageMarkup(file) ==
    IF Truthy(file) THEN Str(<<"<img src=\"">> \o file.s \o <<"\">">>) ELSE Str(<< >>)

SoundMarkup(file) ==
    IF Truthy(file) THEN Str(<<"[sound:">> \o file.s \o <<"]">>) ELSE Str(<< >>)

\* the AnkiCard _process_word returns
MakeCard(word, wi, viet, sound, image) ==
    [no |-> Str(word.keyword),
     image |-> ImageMarkup(image),
     vietnamese |-> viet,
     suggestion |-> Str(generate_suggestion_deterministic(word.keyword, NoneInt).value),
     keyword |-> Str(word.keyword),
     transcription |-> OrEmpty(wi.transcription),
     explanation |-> Str(format_explanation(word.keyword, wi.definition)),
     sound |-> SoundMarkup(sound),
     example |-> Str(format_examples(wi.examples))]

SkippedLogHeader ==
    << <<"# Words/phrases not found in dictionary">>,
       <<"# Add these manually or review later">>,
       << >> >>

\* _write_skipped_log: the file opened with "w"
write_skipped_log(words) ==
    [exists |-> TRUE, lines |-> SkippedLogHeader \o words]

\* what an earlier run left behind
OldSound == <<"c", "a", "t">> \o Suffix \o <<".ogg">>

OldImage == <<"c", "a", "t">> \o Suffix \o <<".png">>

OldCard ==
    MakeCard([keyword |-> <<"o", "l", "d">>, vietnamese |-> << >>],
             WordInfo(None, None, Str(Definition), << >>), Str(<< >>), None, None)

\* history of one download call: the target name, whether the file was
\* there before and after the call, whether a GET was made, what was returned
NoEntryCall ==
    [called |-> FALSE, target |-> << >>, existed |-> FALSE, fetched |-> FALSE,
     result |-> None, left |-> FALSE]

EntryCall(d, dirBefore) ==
    [called |-> TRUE, target |-> d.target, existed |-> d.target \in dirBefore,
     fetched |-> d.fetched, result |-> d.result, left |-> d.target \in d.dir]

PipelineIdle ==
    /\ inputRows = << >>
    /\ api_key = None
    /\ soundsDir = {}
    /\ imagesDir = {}
    /\ outputFile = NoFile
    /\ skippedLog = NoFile
    /\ pc = "idle"
    /\ rowNo = 0
    /\ input_word = NoInputWord
    /\ word_info = NoWordInfo
    /\ cards = << >>
    /\ skipped = << >>
    /\ translator = "uninit"
    /\ vietnamese = None
    /\ sound_file = None
    /\ image_file = None
    /\ entries = << >>
    /\ lastCall = [row |-> 0, kind |-> "none"]

\* generate() about to start, after AnkiCardGenerator.__init__
Init ==
    /\ inputRows \in InputTables
    /\ api_key \in {None, Str(<<"key">>)}
    /\ \E earlier \in BOOLEAN :
          /\ soundsDir = IF earlier THEN {OldSound} ELSE {}
          /\ imagesDir = IF earlier THEN {OldImage} ELSE {}
          /\ outputFile = IF earlier THEN write_cards(<<OldCard>>) ELSE NoFile
          /\ skippedLog = IF earlier THEN write_skipped_log(<< <<"o", "l", "d">> >>)
                          ELSE NoFile
    /\ pc = "read"
    /\ rowNo = 0
    /\ input_word = NoInputWord
    /\ word_info = NoWordInfo
    /\ cards = << >>
    /\ skipped = << >>
    /\ translator = "uninit"
    /\ vietnamese = None
    /\ sound_file = None
    /\ image_file = None
    /\ entries = << >>
    /\ lastCall = [row |-> 0, kind |-> "none"]
    /\ HintIdle
    /\ SearchIdle

Call(kind) == lastCall' = [row |-> rowNo, kind |-> kind]

NewEntry(word, wi) ==
    [row |-> rowNo, keyword |-> word.keyword, provided |-> word.vietnamese,
     lookup |-> wi, translateCalled |-> FALSE, failures |-> {},
     soundCall |-> NoEntryCall, imageCall |-> NoEntryCall, carded |-> FALSE]

LastEntry == entries[Len(entries)]

SetEntry(e) == entries' = [entries EXCEPT ![Len(entries)] = e]

SearchReset ==
    /\ searchPc' = "idle"
    /\ max_retries' = 0
    /\ initial_delay' = 0
    /\ attempt' = 0
    /\ image_url' = None
    /\ responses' = << >>
    /\ sleeps' = << >>

\* read_words reaches the end of the file: the for loop of generate ends
ReadEnd ==
    /\ pc = "read"
    /\ rowNo = Len(inputRows)
    /\ pc' = "write"
    /\ UNCHANGED <<envVars, rowNo, input_word, word_info, cards, skipped, translator,
                   vietnamese, sound_file, image_file, entries, lastCall>>
    /\ UNCHANGED <<hintVars, searchVars>>

\* read_words drops a row whose keyword is blank
ReadBlank ==
    /\ pc = "read"
    /\ rowNo < Len(inputRows)
    /\ LET r == ReadWord(inputRows[rowNo + 1])
       IN  ~r.raised /\ ~r.yields
    /\ rowNo' = rowNo + 1
    /\ UNCHANGED <<envVars, pc, input_word, word_info, cards, skipped, translator,
                   vietnamese, sound_file, image_file, entries, lastCall>>
    /\ UNCHANGED <<hintVars, searchVars>>

\* read_words raises on a row without a Vietnamese cell: generate() is left
\* by the exception
ReadRaise ==
    /\ pc = "read"
    /\ rowNo < Len(inputRows)
    /\ ReadWord(inputRows[rowNo + 1]).raised
    /\ rowNo' = rowNo + 1
    /\ pc' = "aborted"
    /\ UNCHANGED <<envVars, input_word, word_info, cards, skipped, translator,
                   vietnamese, sound_file, image_file, entries, lastCall>>
    /\ UNCHANGED <<hintVars, searchVars>>

\* read_words yields the next InputWord
ReadRow ==
    /\ pc = "read"
    /\ rowNo < Len(inputRows)
    /\ LET r == ReadWord(inputRows[rowNo + 1])
       IN  /\ ~r.raised /\ r.yields
           /\ input_word' = [keyword |-> r.keyword, vietnamese |-> r.vietnamese]
    /\ rowNo' = rowNo + 1
    /\ pc' = "lookup"
    /\ UNCHANGED <<envVars, word_info, cards, skipped, translator,
                   vietnamese, sound_file, image_file, entries, lastCall>>
    /\ UNCHANGED <<hintVars, searchVars>>

\* get_word_info gives nothing usable: the keyword is skipped
LookupSkipped ==
    /\ pc = "lookup"
    /\ \E wi \in WordInfos :
          /\ NotFound(wi)
          /\ word_info' = wi
          /\ entries' = Append(entries, NewEntry(input_word, wi))
    /\ skipped' = Append(skipped, input_word.keyword)
    /\ Call("lookup")
    /\ pc' = "read"
    /\ UNCHANGED <<envVars, rowNo, input_word, cards, translator,
                   vietnamese, sound_file, image_file>>
    /\ UNCHANGED <<hintVars, searchVars>>

\* get_word_info gives a definition: _process_word starts
LookupFound ==
    /\ pc = "lookup"
    /\ \E wi \in WordInfos :
          /\ ~NotFound(wi)
          /\ word_info' = wi
          /\ entries' = Append(entries, NewEntry(input_word, wi))
    /\ Call("lookup")
    /\ pc' = "translate"
    /\ UNCHANGED <<envVars, rowNo, input_word, cards, skipped, translator,
                   vietnamese, sound_file, image_file>>
    /\ UNCHANGED <<hintVars, searchVars>>

\* vietnamese = input_word.vietnamese, kept as it is
TranslateProvided ==
    /\ pc = "translate"
    /\ ~NeedsTranslation(input_word.vietnamese)
    /\ vietnamese' = Str(input_word.vietnamese)
    /\ pc' = "sound"
    /\ UNCHANGED <<envVars, rowNo, input_word, word_info, cards, skipped, translator,
                   sound_file, image_file, entries, lastCall>>
    /\ UNCHANGED <<hintVars, searchVars>>

\* vietnamese = self.translator.translate_to_vietnamese(keyword) or ""
TranslateCall ==
    /\ pc = "translate"
    /\ NeedsTranslation(input_word.vietnamese)
    /\ \E outcome \in TranslateOutcomes :
          LET t == translate_to_vietnamese(input_word.keyword, translator, outcome)
          IN  /\ vietnamese' = OrEmpty(t.result)
              /\ translator' = t.state
              /\ SetEntry([LastEntry EXCEPT
                    !.translateCalled = TRUE,
                    !.failures = IF t.result.none THEN @ \cup {"translate"} ELSE @])
    /\ Call("translate")
    /\ pc' = "sound"
    /\ UNCHANGED <<envVars, rowNo, input_word, word_info, cards, skipped,
                   sound_file, image_file>>
    /\ UNCHANGED <<hintVars, searchVars>>

\* no pronunciation_url: sound_file stays ""
SoundNone ==
    /\ pc = "sound"
    /\ ~Truthy(word_info.pronunciation_url)
    /\ sound_file' = Str(<< >>)
    /\ pc' = "image"
    /\ UNCHANGED <<envVars, rowNo, input_word, word_info, cards, skipped, translator,
                   vietnamese, image_file, entries, lastCall>>
    /\ UNCHANGED <<hintVars, searchVars>>

\* sound_file = self.sound_downloader.download(url, keyword) or ""
SoundCall ==
    /\ pc = "sound"
    /\ Truthy(word_info.pronunciation_url)
    /\ \E outcome \in FetchOutcomes :
          LET d == SoundDownload(soundsDir, word_info.pronunciation_url,
                                 input_word.keyword, outcome)
          IN  /\ sound_file' = OrEmpty(d.result)
              /\ soundsDir' = d.dir
              /\ SetEntry([LastEntry EXCEPT
                    !.soundCall = EntryCall(d, soundsDir),
                    !.failures = IF d.result.none THEN @ \cup {"sound"} ELSE @])
    /\ Call("sound")
    /\ pc' = "image"
    /\ UNCHANGED <<inputRows, api_key, imagesDir, outputFile, skippedLog>>
    /\ UNCHANGED <<rowNo, input_word, word_info, cards, skipped, translator,
                   vietnamese, image_file>>
    /\ UNCHANGED <<hintVars, searchVars>>

\* search_and_download without an API key: None at once
ImageNotConfigured ==
    /\ pc = "image"
    /\ ~Truthy(api_key)
    /\ image_file' = OrEmpty(None)
    /\ SetEntry([LastEntry EXCEPT !.failures = @ \cup {"not_configured"}])
    /\ Call("image")
    /\ pc' = "assemble"
    /\ UNCHANGED <<envVars, rowNo, input_word, word_info, cards, skipped, translator,
                   vietnamese, sound_file>>
    /\ UNCHANGED <<hintVars, searchVars>>

\* the search begun without looking at the API key
ImageSearchStartUnguarded ==
    /\ pc = "image"
    /\ SearchEnter(DefaultMaxRetries, DefaultInitialDelay)
    /\ Call("image")
    /\ pc' = "search"
    /\ UNCHANGED <<envVars, rowNo, input_word, word_info, cards, skipped, translator,
                   vietnamese, sound_file, image_file, entries>>
    /\ UNCHANGED hintVars

\* search_and_download calls _search_image(keyword) with its defaults
ImageSearchStart ==
    /\ pc = "image"
    /\ Truthy(api_key)
    /\ SearchEnter(DefaultMaxRetries, DefaultInitialDelay)
    /\ Call("image")
    /\ pc' = "search"
    /\ UNCHANGED <<envVars, rowNo, input_word, word_info, cards, skipped, translator,
                   vietnamese, sound_file, image_file, entries>>
    /\ UNCHANGED hintVars

\* one request of the search loop, made for the row being processed
PipelineSearch(step) ==
    /\ pc = "search"
    /\ step
    /\ Call("search")
    /\ UNCHANGED <<envVars, pc, rowNo, input_word, word_info, cards, skipped, translator,
                   vietnamese, sound_file, image_file, entries>>
    /\ UNCHANGED hintVars

\* _search_image returned None: search_and_download returns None
ImageNoUrl ==
    /\ pc = "search"
    /\ searchPc = "returned"
    /\ ~Truthy(image_url)
    /\ image_file' = OrEmpty(None)
    /\ SetEntry([LastEntry EXCEPT !.failures = @ \cup {"search"}])
    /\ SearchReset
    /\ pc' = "assemble"
    /\ UNCHANGED <<envVars, rowNo, input_word, word_info, cards, skipped, translator,
                   vietnamese, sound_file, lastCall>>
    /\ UNCHANGED hintVars

\* image_file = self._download_image(image_url, filename) or ""
ImageCall ==
    /\ pc = "search"
    /\ searchPc = "returned"
    /\ Truthy(image_url)
    /\ \E outcome \in FetchOutcomes :
          LET d == ImageDownload(imagesDir, image_url.s, input_word.keyword, outcome)
          IN  /\ image_file' = OrEmpty(d.result)
              /\ imagesDir' = d.dir
              /\ SetEntry([LastEntry EXCEPT
                    !.imageCall = EntryCall(d, imagesDir),
                    !.failures = IF d.result.none THEN @ \cup {"image"} ELSE @])
    /\ SearchReset
    /\ Call("download")
    /\ pc' = "assemble"
    /\ UNCHANGED <<inputRows, api_key, soundsDir, outputFile, skippedLog>>
    /\ UNCHANGED <<rowNo, input_word, word_info, cards, skipped, translator,
                   vietnamese, sound_file>>
    /\ UNCHANGED hintVars

\* the rest of _process_word, and cards.append(card)
Assemble ==
    /\ pc = "assemble"
    /\ cards' = AppendCard(cards,
                    MakeCard(input_word, word_info, vietnamese, sound_file, image_file))
    /\ SetEntry([LastEntry EXCEPT !.carded = TRUE])
    /\ pc' = "read"
    /\ UNCHANGED <<envVars, rowNo, input_word, word_info, skipped, translator,
                   vietnamese, sound_file, image_file, lastCall>>
    /\ UNCHANGED <<hintVars, searchVars>>

\* self.csv_writer.write_cards(cards)
WriteCards ==
    /\ pc = "write"
    /\ outputFile' = write_cards(cards)
    /\ pc' = "log"
    /\ UNCHANGED <<inputRows, api_key, soundsDir, imagesDir, skippedLog>>
    /\ UNCHANGED <<rowNo, input_word, word_info, cards, skipped, translator,
                   vietnamese, sound_file, image_file, entries, lastCall>>
    /\ UNCHANGED <<hintVars, searchVars>>

\* the log written whether or not anything was skipped
LogSkippedAlways ==
    /\ pc = "log"
    /\ skippedLog' = write_skipped_log(skipped)
    /\ pc' = "done"
    /\ UNCHANGED <<inputRows, api_key, soundsDir, imagesDir, outputFile>>
    /\ UNCHANGED <<rowNo, input_word, word_info, cards, skipped, translator,
                   vietnamese, sound_file, image_file, entries, lastCall>>
    /\ UNCHANGED <<hintVars, searchVars>>

\* `if skipped:` self._write_skipped_log(skipped); return cards
LogSkipped ==
    /\ pc = "log"
    /\ skipped # << >>
    /\ skippedLog' = write_skipped_log(skipped)
    /\ pc' = "done"
    /\ UNCHANGED <<inputRows, api_key, soundsDir, imagesDir, outputFile>>
    /\ UNCHANGED <<rowNo, input_word, word_info, cards, skipped, translator,
                   vietnamese, sound_file, image_file, entries, lastCall>>
    /\ UNCHANGED <<hintVars, searchVars>>

\* nothing skipped: return cards
ReturnCards ==
    /\ pc = "log"
    /\ skipped = << >>
    /\ pc' = "done"
    /\ UNCHANGED <<envVars, rowNo, input_word, word_info, cards, skipped, translator,
                   vietnamese, sound_file, image_file, entries, lastCall>>
    /\ UNCHANGED <<hintVars, searchVars>>

Next ==
    \/ ReadEnd
    \/ ReadBlank
    \/ ReadRaise
    \/ ReadRow
    \/ LookupSkipped
    \/ LookupFound
    \/ TranslateProvided
    \/ TranslateCall
    \/ SoundNone
    \/ SoundCall
    \/ ImageNotConfigured
    \/ ImageSearchStart
    \/ PipelineSearch(SearchFound)
    \/ PipelineSearch(SearchNoPhotos)
    \/ PipelineSearch(SearchRateLimitedRetry)
    \/ PipelineSearch(SearchRateLimitExceeded)
    \/ PipelineSearch(SearchHttpError)
    \/ PipelineSearch(SearchRequestError)
    \/ ImageNoUrl
    \/ ImageCall
    \/ Assemble
    \/ WriteCards
    \/ LogSkipped
    \/ ReturnCards

Spec == Init /\ [][Next]_vars

----------------------------------------------------------------------------
\* _search_image called on its own with every bounded max_retries, initial_delay
InitSearch ==
    /\ searchPc = "loop"
    /\ max_retries \in (-1)..MaxRetriesBound
    /\ initial_delay \in 1..MaxInitialDelay
    /\ attempt = 0
    /\ image_url = None
    /\ responses = << >>
    /\ sleeps = << >>
    /\ HintIdle
    /\ PipelineIdle

NextSearch ==
    \/ SearchFound /\ UNCHANGED <<hintVars, pipelineVars>>
    \/ SearchNoPhotos /\ UNCHANGED <<hintVars, pipelineVars>>
    \/ SearchRateLimitedRetry /\ UNCHANGED <<hintVars, pipelineVars>>
    \/ SearchRateLimitExceeded /\ UNCHANGED <<hintVars, pipelineVars>>
    \/ SearchHttpError /\ UNCHANGED <<hintVars, pipelineVars>>
    \/ SearchRequestError /\ UNCHANGED <<hintVars, pipelineVars>>
    \/ SearchLoopEnd /\ UNCHANGED <<hintVars, pipelineVars>>

SpecSearch == InitSearch /\ [][NextSearch]_vars

\* The loop is one running thread and every request carries a timeout, so the
\* call always takes its next step.
SpecSearchFair == SpecSearch /\ WF_vars(NextSearch)

----------------------------------------------------------------------------
\* The hint generator applied to every bounded input.

HintAlphabet == {"a", "B", " "}

HintWords == UNION {[1..n -> HintAlphabet] : n \in 0..MaxWordLen}

HintReveals == {NoneInt} \cup {IntV(n) : n \in (-2)..(MaxWordLen + 1)}

InitHint ==
    /\ hintPc = "call"
    /\ hintWord \in HintWords
    /\ hintReveal \in HintReveals
    /\ hintResult = << >>
    /\ SearchIdle
    /\ PipelineIdle

HintReturn ==
    /\ hintPc = "call"
    /\ LET r == generate_suggestion_deterministic(hintWord, hintReveal)
       IN  /\ ~r.raised
           /\ hintPc' = "returned"
           /\ hintResult' = r.value
    /\ UNCHANGED <<hintWord, hintReveal, searchVars, pipelineVars>>

HintRaise ==
    /\ hintPc = "call"
    /\ generate_suggestion_deterministic(hintWord, hintReveal).raised
    /\ hintPc' = "raised"
    /\ UNCHANGED <<hintWord, hintReveal, hintResult, searchVars, pipelineVars>>

NextHint == HintReturn \/ HintRaise

SpecHint == InitHint /\ [][NextHint]_vars

----------------------------------------------------------------------------
\* Claims about _search_image

ResponseKinds == [i \in 1..Len(responses) |-> responses[i].kind]

AllRateLimited == \A i \in 1..Len(responses) : responses[i].kind = "429"

RECURSIVE SumSeq(_)
SumSeq(s) == IF s = << >> THEN 0 ELSE Head(s) + SumSeq(Tail(s))

C3_Counts ==
    /\ Len(responses) <= max_retries + 1
    /\ (max_retries >= 0 /\ AllRateLimited) =>
          /\ searchPc = "loop" => Len(responses) <= max_retries
          /\ searchPc = "returned" =>
                /\ Len(responses) = max_retries + 1
                /\ Len(sleeps) = max_retries
                /\ image_url = None

\* C3: a call that is answered 429 every time makes exactly max_retries + 1
\* attempts and max_retries sleeps and returns None; no call makes more than
\* max_retries + 1 attempts; and every call returns.
C3_RateLimitExhaustion == []C3_Counts /\ <>(searchPc = "returned")

C3_Witness ==
    /\ searchPc = "returned"
    /\ max_retries = 3
    /\ ResponseKinds = <<"429", "429", "429", "429">>
    /\ Len(sleeps) = 3
    /\ image_url = None

\* C4: when the first k attempts are answered 429 and attempt k+1 carries a
\* photo, the call returns that photo's URL, sleep number i (from 0) lasted
\* initial_delay * 2^i and the sleeps add up to initial_delay * (2^k - 1).
C4_BackoffThenSuccess ==
    (searchPc = "returned" /\ responses # << >>
        /\ responses[Len(responses)].kind = "photos") =>
        LET k == Len(responses) - 1
        IN  /\ k <= max_retries
            /\ \A i \in 1..k : responses[i].kind = "429"
            /\ image_url = Str(responses[k + 1].url)
            /\ image_url.s \in ImageUrls
            /\ Len(sleeps) = k
            /\ \A i \in 0..(k - 1) : sleeps[i + 1] = initial_delay * (2 ^ i)
            /\ SumSeq(sleeps) = initial_delay * ((2 ^ k) - 1)

C4_Witness ==
    /\ searchPc = "returned"
    /\ max_retries = 3
    /\ initial_delay = 2
    /\ ResponseKinds = <<"429", "429", "photos">>
    /\ sleeps = <<2, 4>>
    /\ ~image_url.none

FinalKinds == {"empty", "http_error", "request_error"}

\* C5: an attempt answered with no photos, a non-429 error status or a
\* network error is the last one: no sleep follows it and the call returns
\* None at once; every attempt before the last was answered 429.
C5_OnlyRateLimitRetries ==
    \A i \in 1..Len(responses) :
        /\ i < Len(responses) => responses[i].kind = "429"
        /\ responses[i].kind \in FinalKinds =>
              /\ i = Len(responses)
              /\ searchPc = "returned"
              /\ image_url = None
              /\ Len(sleeps) = i - 1

C5_Witness ==
    /\ searchPc = "returned"
    /\ max_retries = 3
    /\ ResponseKinds = <<"429", "http_error">>
    /\ attempt < max_retries
    /\ Len(sleeps) = 1
    /\ image_url = None

----------------------------------------------------------------------------
\* Claims about generate()

\* the lookup returned a result with a non-empty definition
Found(e) ==
    /\ ~e.lookup.none
    /\ ~e.lookup.definition.none
    /\ e.lookup.definition.s # << >>

NotFoundEntry(e) == ~Found(e)

Carded(e) == Found(e) /\ e.carded

KeywordsOf(seq) == [i \in 1..Len(seq) |-> seq[i].keyword]

CardKeywords == [i \in 1..Len(cards) |-> cards[i].keyword.s]

\* the rows among the first n whose trimmed Keyword is not empty
NonBlankRows(n) == {i \in 1..n : Strip(inputRows[i].Keyword) # << >>}

EntryRows == {entries[i].row : i \in 1..Len(entries)}

\* a row has been handed to the lookup and is not yet in either list
Busy == pc \in {"lookup", "translate", "sound", "image", "search", "assemble"}

\* generate() has left its loop over the rows, by its end or by an exception
LoopOver == pc \in {"write", "log", "done", "aborted"}

\* the card of entry i, which is a carded one
CardOf(i) ==
    cards[Cardinality({j \in 1..i : Found(entries[j])})]

\* C1: every row with a non-blank keyword is in exactly one of cards and
\* skipped (in cards exactly when its lookup gave a non-empty definition),
\* blank rows are in neither, and all along cards + skipped counts the
\* non-blank rows processed so far.
C1_EveryRowAccounted ==
    /\ Len(cards) + Len(skipped)
          = Cardinality(NonBlankRows(rowNo)) - (IF Busy THEN 1 ELSE 0)
    /\ CardKeywords = KeywordsOf(SelectSeq(entries, Carded))
    /\ skipped = KeywordsOf(SelectSeq(entries, NotFoundEntry))
    /\ EntryRows \subseteq NonBlankRows(rowNo)
    /\ LoopOver => EntryRows = NonBlankRows(Len(inputRows))

\* the part of C1 that holds whatever the table: the running count, row by
\* row, up to the row on which read_words raises
C1_AccountedUntilRaise ==
    /\ pc # "aborted" =>
          Len(cards) + Len(skipped)
             = Cardinality(NonBlankRows(rowNo)) - (IF Busy THEN 1 ELSE 0)
    /\ CardKeywords = KeywordsOf(SelectSeq(entries, Carded))
    /\ skipped = KeywordsOf(SelectSeq(entries, NotFoundEntry))
    /\ EntryRows \subseteq NonBlankRows(rowNo)
    /\ pc \in {"write", "log", "done"} => EntryRows = NonBlankRows(Len(inputRows))

\* the keywords of the input rows 1..n, blank and skipped ones removed
RECURSIVE KeptKeywords(_)
KeptKeywords(n) ==
    IF n = 0 THEN << >>
    ELSE KeptKeywords(n - 1) \o
         (IF \E i \in 1..Len(entries) : entries[i].row = n /\ Found(entries[i])
          THEN <<Strip(inputRows[n].Keyword)>> ELSE << >>)

KeywordColumn == CHOOSE i \in 1..Len(OUTPUT_FIELDS) : OUTPUT_FIELDS[i] = "Keyword"

OutputKeywords ==
    [i \in 1..(Len(outputFile.lines) - 1) |-> outputFile.lines[i + 1][KeywordColumn].s]

C2_InOrder ==
    /\ \A i \in 1..Len(entries) :
          /\ entries[i].keyword = Strip(inputRows[entries[i].row].Keyword)
          /\ i > 1 => entries[i - 1].row < entries[i].row
          /\ i < Len(entries) => (Found(entries[i]) => entries[i].carded)
    /\ CardKeywords = KeywordsOf(SelectSeq(entries, Carded))
    /\ pc \in {"log", "done"} =>
          /\ OutputKeywords = KeptKeywords(Len(inputRows))
          /\ EntryRows = NonBlankRows(Len(inputRows))

C2_CallsInRowOrder ==
    lastCall' # lastCall =>
        /\ lastCall'.row >= lastCall.row
        /\ lastCall'.row = rowNo
        /\ lastCall'.row > lastCall.row => pc = "lookup"

\* C2: the calls made for a row all come before any call for the next row,
\* and the keywords written to the output table are the input keywords in
\* input order with the blank and the skipped ones removed.
C2_SequentialInOrder == []C2_InOrder /\ [][C2_CallsInRowOrder]_vars

C2_Witness ==
    /\ pc = "done"
    /\ Len(inputRows) = 2
    /\ Len(cards) = 2
    /\ cards[1].keyword # cards[2].keyword
    /\ OutputKeywords = << <<"c", "a", "t">>, <<"B", "e">> >>
    /\ lastCall.row = 2

Empty == Str(<< >>)

C6_Emitted ==
    /\ \A k \in 1..Len(cards) :
          \A f \in 1..Len(OUTPUT_FIELDS) : ~CardRow(cards[k])[f].none
    /\ \A i \in 1..Len(entries) :
          LET e == entries[i]
          IN  /\ Carded(e) =>
                    LET c == CardOf(i)
                    IN  /\ c.keyword = Str(e.keyword)
                        /\ "translate" \in e.failures => c.vietnamese = Empty
                        /\ "sound" \in e.failures => c.sound = Empty
                        /\ e.failures \cap {"search", "image"} # {} => c.image = Empty
              /\ (i < Len(entries) \/ pc \in {"read", "write", "log", "done"}) =>
                    (Found(e) => e.carded)
    /\ pc = "done" => outputFile = write_cards(cards)
    /\ pc = "aborted" => inputRows[rowNo].Vietnamese.none

\* the places of _process_word, in the order the code goes through them
StepRank(p) ==
    CASE p = "translate" -> 1
      [] p = "sound" -> 2
      [] p = "image" -> 3
      [] p = "search" -> 4
      [] p = "assemble" -> 5
      [] OTHER -> 6

C6_GoesOn ==
    pc \in {"translate", "sound", "image", "search", "assemble"} =>
        /\ pc' # "aborted"
        /\ StepRank(pc') >= StepRank(pc)
        /\ pc = "assemble" => (pc' = "read" /\ Len(cards') = Len(cards) + 1)

\* C6: a failed translation, sound download, image search or image download
\* never stops generate(): the entry's card is emitted with "" in that field
\* and no field None, the following rows are processed and the table is
\* written; only read_words raising ends the run early.
C6_FailuresAbsorbed == []C6_Emitted /\ [][C6_GoesOn]_vars

C6_Witness ==
    /\ pc = "done"
    /\ Len(entries) = 2
    /\ entries[1].failures = {"translate", "sound", "image"}
    /\ entries[1].carded
    /\ cards[1].vietnamese = Empty /\ cards[1].sound = Empty /\ cards[1].image = Empty
    /\ entries[2].carded
    /\ Len(outputFile.lines) = 3

\* C7: for an entry that gets a card the translator is called exactly when
\* the entry's translation is empty; a given translation is carried to the
\* card as it is, and a failed translation leaves "" in the card.
C7_TranslateOnlyIfEmpty ==
    \A i \in 1..Len(entries) :
        LET e == entries[i]
        IN  /\ e.provided = Strip(inputRows[e.row].Vietnamese.s)
            /\ ~Found(e) => ~e.translateCalled
            /\ (Found(e) /\ (i < Len(entries) \/ pc # "translate")) =>
                  (e.translateCalled <=> e.provided = << >>)
            /\ Carded(e) =>
                  /\ e.provided # << >> => CardOf(i).vietnamese = Str(e.provided)
                  /\ (e.translateCalled /\ "translate" \in e.failures) =>
                        CardOf(i).vietnamese = Empty

C7_Witness ==
    /\ pc = "done"
    /\ Len(cards) = 2
    /\ entries[1].provided = <<"m", "e", "o">>
    /\ ~entries[1].translateCalled
    /\ cards[1].vietnamese = Str(<<"m", "e", "o">>)
    /\ entries[2].provided = << >>
    /\ entries[2].translateCalled
    /\ "translate" \in entries[2].failures
    /\ cards[2].vietnamese = Empty

\* the download calls made so far, in order, each with its downloader
DownloadCalls ==
    LET RECURSIVE Calls(_)
        Calls(n) ==
            IF n = 0 THEN << >>
            ELSE Calls(n - 1)
                 \o (IF entries[n].soundCall.called /\ entries[n].soundCall.target # << >>
                     THEN << [kind |-> "sound", call |-> entries[n].soundCall] >>
                     ELSE << >>)
                 \o (IF entries[n].imageCall.called
                     THEN << [kind |-> "image", call |-> entries[n].imageCall] >>
                     ELSE << >>)
    IN  Calls(Len(entries))

SameTarget(a, b) == a.kind = b.kind /\ a.call.target = b.call.target

\* C8 as stated: of two download calls with the same target file name only
\* one fetches, and the second reports the file name without fetching.
C8_SecondCallNeverFetches ==
    \A i, j \in 1..Len(DownloadCalls) :
        (i < j /\ SameTarget(DownloadCalls[i], DownloadCalls[j])) =>
            /\ ~DownloadCalls[j].call.fetched
            /\ DownloadCalls[j].call.result = Str(DownloadCalls[j].call.target)

\* C8 amended: a call fetches exactly when the target file is not there;
\* when it is there the call reports the name without a fetch; so a later
\* call with the same target does not fetch, and reports the name, once an
\* earlier call has left the file behind (it got as far as creating it), and
\* fetches again when every call so far failed before that.
C8_FetchOnlyIfAbsent ==
    /\ \A i \in 1..Len(DownloadCalls) :
          LET c == DownloadCalls[i].call
          IN  /\ c.fetched <=> ~c.existed
              /\ c.existed => c.result = Str(c.target)
              /\ ~c.result.none => (c.result = Str(c.target) /\ c.left)
              /\ c.existed => c.left
    /\ \A i, j \in 1..Len(DownloadCalls) :
          (i < j /\ SameTarget(DownloadCalls[i], DownloadCalls[j])) =>
              /\ DownloadCalls[i].call.left =>
                    /\ ~DownloadCalls[j].call.fetched
                    /\ DownloadCalls[j].call.result = Str(DownloadCalls[j].call.target)
              /\ (\A k \in i..(j - 1) :
                     SameTarget(DownloadCalls[k], DownloadCalls[j])
                         => ~DownloadCalls[k].call.left)
                    => DownloadCalls[j].call.fetched
    /\ \A i \in 1..Len(entries) :
          /\ entries[i].soundCall.left => entries[i].soundCall.target \in soundsDir
          /\ entries[i].imageCall.left => entries[i].imageCall.target \in imagesDir

C8_Witness ==
    /\ Len(entries) = 2
    /\ entries[1].soundCall.fetched
    /\ entries[1].soundCall.result = Str(<<"B", "e">> \o Suffix \o <<".ogg">>)
    /\ entries[2].soundCall.called
    /\ entries[2].soundCall.target = entries[1].soundCall.target
    /\ entries[2].soundCall.existed
    /\ ~entries[2].soundCall.fetched
    /\ entries[2].soundCall.result = entries[1].soundCall.result
    /\ entries[1].imageCall.fetched
    /\ ~entries[1].imageCall.result.none
    /\ entries[2].imageCall.target = entries[1].imageCall.target
    /\ ~entries[2].imageCall.fetched
    /\ entries[2].imageCall.result = entries[1].imageCall.result

----------------------------------------------------------------------------
\* Claims about generate_suggestion_deterministic

HintCalled == hintPc \in {"returned", "raised"}

\* C9: for a word whose normalized form is longer than 2, whatever the reveal
\* count, the call returns and its output shows "_" in the last place.
C9_LastCharacterHidden ==
    (HintCalled /\ Len(Strip(Lower(hintWord))) > 2) =>
        /\ hintPc = "returned"
        /\ hintResult # << >>
        /\ hintResult[Len(hintResult)] = "_"

\* the part of C9 that holds: a call that returns never shows the last character
C9_LastCharacterHiddenIfReturned ==
    (hintPc = "returned" /\ Len(Strip(Lower(hintWord))) > 2) =>
        /\ Len(hintResult) = 2 * Len(Strip(Lower(hintWord))) - 1
        /\ hintResult[Len(hintResult)] = "_"

\* C10 as stated: a word of length <= 2 comes back as it was given.
C10_ShortWordUnchanged ==
    (HintCalled /\ Len(hintWord) <= 2) =>
        (hintPc = "returned" /\ hintResult = hintWord)

IsNormalized(w) ==
    /\ \A i \in 1..Len(w) : w[i] \notin {"A", "B", "C"}
    /\ w # << >> => (w[1] # " " /\ w[Len(w)] # " ")

\* C10 amended: when the lowercased, trimmed word has length <= 2 (so for
\* every word of length <= 2) the hint is that lowercased, trimmed word, with
\* no "_" and no separator added; it is the input itself exactly when the
\* input is already lowercase with no surrounding whitespace.
C10_ShortWordNormalized ==
    (HintCalled /\ Len(Strip(Lower(hintWord))) <= 2) =>
        /\ hintPc = "returned"
        /\ hintResult = Strip(Lower(hintWord))
        /\ IsNormalized(hintResult)
        /\ (hintResult = hintWord <=> IsNormalized(hintWord))

C10_Witness ==
    /\ hintPc = "returned"
    /\ hintWord = <<"B", " ">>
    /\ hintResult = <<"b">>

----------------------------------------------------------------------------
\* Claims about the skipped-words log

\* the keywords of the input rows 1..n whose lookup found nothing, in order
RECURSIVE SkippedKeywords(_)
SkippedKeywords(n) ==
    IF n = 0 THEN << >>
    ELSE SkippedKeywords(n - 1) \o
         (IF \E i \in 1..Len(entries) : entries[i].row = n /\ NotFoundEntry(entries[i])
          THEN <<Strip(inputRows[n].Keyword)>> ELSE << >>)

CommentLines == SubSeq(SkippedLogHeader, 1, 2)

\* C11 as stated: a run that ends with a skipped entry leaves in the log
\* exactly the two comment lines followed by its skipped keywords.
C11_LogIsCommentsThenKeywords ==
    (pc = "done" /\ skipped # << >>) =>
        skippedLog = [exists |-> TRUE, lines |-> CommentLines \o skipped]

C11_LogAtEnd ==
    /\ skipped = SkippedKeywords(rowNo)
    /\ (pc = "done" /\ skipped # << >>) =>
          /\ skippedLog.exists
          /\ SubSeq(skippedLog.lines, 1, 2) = CommentLines
          /\ skippedLog.lines[3] = << >>
          /\ SubSeq(skippedLog.lines, 4, Len(skippedLog.lines))
                = SkippedKeywords(Len(inputRows))
          /\ Len(skippedLog.lines) = 3 + Len(skipped)

C11_LogWrittenOnlyWithSkips ==
    skippedLog' # skippedLog =>
        /\ pc = "log" /\ pc' = "done"
        /\ skipped # << >>

\* C11 amended: the log is written only at the end of a run that got through
\* all its rows with at least one entry skipped, and then holds the two
\* comment lines, one empty line, and this run's skipped keywords one per
\* line in input order, nothing else; any other run (nothing skipped, or left
\* by an exception) leaves the file as it was, absent or not.
C11_SkippedLogOverwritten == []C11_LogAtEnd /\ [][C11_LogWrittenOnlyWithSkips]_vars

\* two rows skipped by a run that found an earlier run's files
C11_Witness ==
    /\ pc = "done"
    /\ Len(skipped) = 2
    /\ OldSound \in soundsDir
    /\ \A i \in 1..Len(entries) : ~entries[i].soundCall.called
    /\ skippedLog = write_skipped_log(skipped)
    /\ \A i \in 1..Len(skippedLog.lines) : skippedLog.lines[i] # <<"o", "l", "d">>

----------------------------------------------------------------------------
\* Claims about the default reveal count

\* the number of places of a hint that show a character of the word
RevealedCount(hint) ==
    Cardinality({k \in 1..Len(hint) : k % 2 = 1 /\ hint[k] # "_"})

DefaultHintReturned ==
    /\ hintPc = "returned"
    /\ hintReveal = NoneInt
    /\ Len(Normalize(hintWord)) >= 3

\* the lengths for which the float step of the code is the exact quotient
ExactLengths == 3..29

----------------------------------------------------------------------------
\* Claims about a run without an image-service API key

NotConfigured == ~Truthy(api_key)

C13_NoImageAnywhere ==
    NotConfigured =>
        /\ SearchIdle
        /\ \A i \in 1..Len(entries) :
              /\ ~entries[i].imageCall.called
              /\ entries[i].carded => "not_configured" \in entries[i].failures
              /\ entries[i].failures \cap {"search", "image"} = {}
        /\ \A i \in 1..Len(cards) : cards[i].image = Str(<< >>)
        /\ pc \in {"log", "done"} =>
              \A i \in 2..Len(outputFile.lines) :
                  outputFile.lines[i] = CardRow(cards[i - 1])
        /\ pc \in {"assemble"} => image_file = Str(<< >>)
        /\ pc # "search"

C13_NoRequestNoAbort ==
    NotConfigured =>
        /\ UNCHANGED searchVars
        /\ imagesDir' = imagesDir
        /\ pc = "image" =>
              /\ pc' = "assemble"
              /\ image_file' = Str(<< >>)
              /\ cards' = cards /\ skipped' = skipped
        /\ pc' = "aborted" => pc = "read"

\* C13: without an API key every search_and_download call returns None with
\* no search request and no download request made, every card has an empty
\* image field, and the run goes on to assemble the card of the row in hand.
C13_ImagesDisabledWithoutKey == []C13_NoImageAnywhere /\ [][C13_NoRequestNoAbort]_vars

C13_Witness ==
    /\ NotConfigured
    /\ pc = "done"
    /\ Len(cards) = 2
    /\ \A i \in 1..2 : /\ cards[i].image = Str(<< >>)
                        /\ "not_configured" \in entries[i].failures
                        /\ ~entries[i].imageCall.called
    /\ Len(outputFile.lines) = 3

----------------------------------------------------------------------------
\* csv_handler.py: CSVWriter used on its own, any sequence of write_cards
\* and append_card calls on one path

MaxLines == 4

MaxCards == 2

\* the cards handed to the writer
WriterCards ==
    { OldCard,
      MakeCard([keyword |-> <<"c", "a", "t">>, vietnamese |-> << >>],
               WordInfo(None, None, Str(Definition), << >>), Str(<<"meo">>), None, None),
      MakeCard([keyword |-> <<"B", "e">>, vietnamese |-> << >>],
               WordInfo(None, Str(<<"/kaet/">>), Str(Definition), << >>),
               Str(<< >>), Str(OldSound), Str(OldImage)) }

WriterCardLists ==
    UNION {[1..n -> WriterCards] : n \in 0..MaxCards}

\* a file that is there and holds nothing
EmptyFile == [exists |-> TRUE, lines |-> << >>]

\* what the path holds before the first call
WriterFiles == {NoFile, EmptyFile, write_cards(<<OldCard>>)}

InitWriter ==
    /\ outputFile \in WriterFiles
    /\ cards = << >>
    /\ lastCall = [row |-> 0, kind |-> "none"]
    /\ inputRows = << >>
    /\ api_key = None
    /\ soundsDir = {}
    /\ imagesDir = {}
    /\ skippedLog = NoFile
    /\ pc = "idle"
    /\ rowNo = 0
    /\ input_word = NoInputWord
    /\ word_info = NoWordInfo
    /\ skipped = << >>
    /\ translator = "uninit"
    /\ vietnamese = None
    /\ sound_file = None
    /\ image_file = None
    /\ entries = << >>
    /\ HintIdle
    /\ SearchIdle

WriterFrame ==
    /\ UNCHANGED <<inputRows, api_key, soundsDir, imagesDir, skippedLog>>
    /\ UNCHANGED <<pc, rowNo, input_word, word_info, skipped, translator,
                   vietnamese, sound_file, image_file, entries>>
    /\ UNCHANGED <<hintVars, searchVars>>

\* writer.write_cards(cardList); cards keeps the argument of the call
WriterWriteCards ==
    \E cardList \in WriterCardLists :
        /\ outputFile' = write_cards(cardList)
        /\ cards' = cardList
        /\ lastCall' = [row |-> 0, kind |-> "write_cards"]
        /\ WriterFrame

\* writer.append_card(card)
WriterAppendCard ==
    \E card \in WriterCards :
        /\ Len(outputFile.lines) < MaxLines
        /\ outputFile' = append_card(outputFile, card)
        /\ cards' = <<card>>
        /\ lastCall' = [row |-> 0, kind |-> "append_card"]
        /\ WriterFrame

NextWriter ==
    \/ WriterWriteCards
    \/ WriterAppendCard

SpecWriter == InitWriter /\ [][NextWriter]_vars

----------------------------------------------------------------------------
\* Claims about the output table

DataRows == {CardRow(c) : c \in WriterCards}

\* one header row, the first line, and only data rows after it
WellFormed(file) ==
    /\ file.exists
    /\ Len(file.lines) >= 1
    /\ file.lines[1] = HeaderRow
    /\ \A i \in 2..Len(file.lines) : file.lines[i] \in DataRows
    /\ HeaderRow \notin DataRows

WriterCalled == lastCall.kind \in {"write_cards", "append_card"}

\* C14 as stated: after any sequence of write_cards and append_card calls the
\* file is one header row followed only by data rows.
C14_AlwaysOneHeader == WriterCalled => WellFormed(outputFile)

C14_AfterWrite ==
    lastCall.kind = "write_cards" =>
        /\ outputFile = write_cards(cards)
        /\ Len(outputFile.lines) = 1 + Len(cards)
        /\ outputFile.lines[1] = HeaderRow
        /\ \A i \in 1..Len(cards) : outputFile.lines[i + 1] = CardRow(cards[i])
        /\ WellFormed(outputFile)

C14_EachCall ==
    /\ lastCall'.kind = "append_card" =>
          /\ outputFile'.exists
          /\ outputFile'.lines
                = (IF outputFile.exists THEN outputFile.lines ELSE <<HeaderRow>>)
                  \o <<CardRow(cards'[1])>>
    /\ (~outputFile.exists \/ WellFormed(outputFile)) => WellFormed(outputFile')

\* C14 amended: write_cards leaves the header plus exactly the rows of its
\* cards in order whatever the file held; append_card adds exactly one row
\* at the end, preceded by the header exactly when the file was not there;
\* so the file is one header row followed only by data rows after every
\* call provided the path held no file or such a file at the start, or
\* write_cards has been called. append_card on a file that is there
\* without a header (an empty one) leaves it without a header.
C14_HeaderKeptFromWellFormed == []C14_AfterWrite /\ [][C14_EachCall]_vars

C14_Witness ==
    /\ lastCall.kind = "append_card"
    /\ Len(outputFile.lines) = 4
    /\ WellFormed(outputFile)
    /\ outputFile.lines[2] = CardRow(OldCard)
    /\ outputFile.lines[4] = CardRow(cards[1])
    /\ cards[1] # OldCard

=============================================================================
